---- MODULE Spec2Model ----
(***************************************************************************)
(* A model of the STEP/DXF assembler repository:                           *)
(*   - DXFAssembler.load_assembly_data / assemble     (dxf_assembler.py)   *)
(*   - STEPAssembler._create_transformation / assemble (stp_assembler.py)  *)
(*   - the three POST handlers of the Flask server     (server.py)         *)
(* Lengths are integers: positions are whole metres, offsets whole         *)
(* millimetres, rotations whole quarter turns.                             *)
(***************************************************************************)
EXTENDS Integers, Sequences, FiniteSets, TLC

VARIABLES
    \* ---- DXFAssembler (dxf_assembler.py)
    dxfFiles,      \* the DXF base folder: product id -> file content
    dxfProducts,   \* self.products
    dxfMsp,        \* self.msp_output: the entities of the output modelspace
    dxfFirstZ,     \* first_product_z_offset
    dxfI,          \* the index i of the loop over self.products (1-based)
    dxfPc,         \* "ready", "loop", "done" (returned True), "failed" (returned False)
    dxfSaved,      \* the entities written by output_doc.saveas, <<>> before
    \* ---- STEPAssembler._create_transformation (stp_assembler.py)
    trProduct,     \* the AssemblyProduct given
    trPoint,       \* a point of the part, in mm
    trTrsf,        \* the gp_Trsf returned
    trImage,       \* the point after _apply_transformation
    trPc,          \* "ready", "done"
    \* ---- STEPAssembler.assemble (stp_assembler.py)
    stFiles,       \* the STEP base folder: product id -> "missing", "corrupt", "ok"
    stProducts,    \* self.products
    stShapes,      \* self.shapes
    stI,           \* the position of the loop over self.products (1-based)
    stCalls,       \* how many times assemble() was called on this assembler
    stPc,          \* "ready", "loop", "done", "failed_empty", "failed_exc"
    stExported,    \* the shapes of the compound given to export_step
    \* ---- the Flask server (server.py); requests are named by their session id
    rq,            \* session id -> the HTTP request (endpoint, form, files)
    pc,            \* session id -> where its handler stands
    loc,           \* session id -> the handler's local variables
    resp,          \* session id -> the response returned ("none" before)
    dirs,          \* the session folders that exist under UPLOAD_FOLDER
    fs,            \* the files that exist: path -> content
    \* ---- STPtoDXFConverter.convert (stp_to_dxf_converter.py); two calls,
    \* "A" and "B", each on a converter with its own output folder
    cvArgs,        \* call -> the arguments (and what the STEP path holds)
    cvFiles,       \* the DXF files that exist: the set of their paths
    cvDoc,         \* call -> the entities of the document given to doc.saveas
    cvResult,      \* call -> the triple returned
    cvPc,          \* call -> "ready", "done"
    \* ---- load_assembly_data (stp_assembler.py, dxf_assembler.py)
    ldProducts,    \* self.products of the assembler
    ldData,        \* the assembly_data of the last call
    ldRaised,      \* the exception the last call raised, "none" if it returned
    ldPc           \* "fresh", "loaded" (called once), "reloaded" (called again)

dxfVars == <<dxfFiles, dxfProducts, dxfMsp, dxfFirstZ, dxfI, dxfPc, dxfSaved>>

trVars == <<trProduct, trPoint, trTrsf, trImage, trPc>>

stVars == <<stFiles, stProducts, stShapes, stI, stCalls, stPc, stExported>>

srvVars == <<rq, pc, loc, resp, dirs, fs>>

cvVars == <<cvArgs, cvFiles, cvDoc, cvResult, cvPc>>

ldVars == <<ldProducts, ldData, ldRaised, ldPc>>

vars == <<dxfVars, trVars, stVars, srvVars, cvVars, ldVars>>

notDxf == <<trVars, stVars, srvVars, cvVars, ldVars>>
notTr == <<dxfVars, stVars, srvVars, cvVars, ldVars>>
notSt == <<dxfVars, trVars, srvVars, cvVars, ldVars>>
notSrv == <<dxfVars, trVars, stVars, cvVars, ldVars>>
notCv == <<dxfVars, trVars, stVars, srvVars, ldVars>>
notLd == <<dxfVars, trVars, stVars, srvVars, cvVars>>

-----------------------------------------------------------------------------
(* Bounds *)

MaxProducts == 2       \* products in one assembly list
MaxEntities == 2       \* entities in one source DXF file
MaxStProducts == 3     \* products in one STEP assembly list
MaxCalls == 2          \* calls of STEPAssembler.assemble on one assembler
MaxReqProducts == 2    \* products in the assemblyData of one request
MaxUploads == 2        \* uploaded files in one request
MaxViews == 2          \* views asked of one conversion
MaxRecords == 2        \* records in the list given to load_assembly_data

(* Program constants *)

MmPerMeter == 1000

-----------------------------------------------------------------------------
(* Helpers *)

SeqsUpTo(S, n) == UNION {[1..k -> S] : k \in 0..n}

Max(a, b) == IF a >= b THEN a ELSE b

\* Python's lst[-n:] as the set of (1-based) indexes it selects from a list of
\* length len: -0 is 0, so lst[-0:] is the whole list.
PyLastSlice(len, n) ==
    IF n = 0 THEN 1..len ELSE (Max(len - n, 0) + 1)..len

-----------------------------------------------------------------------------
(* DXFAssembler *)

PosVals == {0, 1}
DxfIds == {"p1", "p2"}
DxfPositions == {<<0, y, z>> : y \in PosVals, z \in PosVals}

\* Entity kinds of a source file. A LINE implements translate(); a 3DSOLID
\* does not (ezdxf raises from translate(), caught per entity).
EntityKinds == {"LINE", "3DSOLID"}
SrcPoint == <<3, 4>>

\* A file of the base folder: absent, unreadable (ezdxf.readfile raises), or a
\* modelspace of entities.
Missing == [state |-> "missing", entities |-> <<>>]
Unreadable == [state |-> "unreadable", entities |-> <<>>]
DxfContents ==
    {Missing, Unreadable} \cup
    {[state |-> "ok", entities |-> es] : es \in SeqsUpTo(EntityKinds, MaxEntities)}

DXFProduct(data) ==
    [product_id |-> data.productId, position |-> data.position]

DxfData == [productId : DxfIds, position : DxfPositions]

z_offset_mm(product) == product.position[3] * MmPerMeter

y_offset_mm(product) == product.position[2] * MmPerMeter

\* A variant of the import that puts the source entities first.
ImportModelspaceFirst(msp, i, content) ==
    [k \in 1..Len(content.entities) |->
        [owner |-> i, kind |-> content.entities[k], src |-> SrcPoint,
         at |-> SrcPoint]] \o msp

\* importer.import_modelspace(): the source entities are appended to the
\* output modelspace, in source order.
ImportModelspace(msp, i, content) ==
    msp \o [k \in 1..Len(content.entities) |->
              [owner |-> i, kind |-> content.entities[k], src |-> SrcPoint,
               at |-> SrcPoint]]

\* entity.translate(dx, dy, 0) inside its try/except.
Translate(entity, dx, dy) ==
    IF entity.kind = "3DSOLID"
    THEN entity
    ELSE [entity EXCEPT !.at = <<entity.at[1] + dx, entity.at[2] + dy>>]

\* The entities the loop "for entity in entities_list[-new_entities_count:]"
\* visits.
NewlyImported(entities_list, new_entities_count) ==
    PyLastSlice(Len(entities_list), new_entities_count)

\* One iteration of the loop of assemble() for product i: the modelspace after.
ProcessProduct(msp, product, i, content, first_product_z_offset) ==
    IF content.state = "missing" THEN msp
    ELSE IF content.state = "unreadable" THEN msp
    ELSE LET entities_before == Len(msp)
             imported == ImportModelspace(msp, i, content)
             entities_after == Len(imported)
             new_entities_count == entities_after - entities_before
             translate_x == first_product_z_offset - z_offset_mm(product)
             translate_y == y_offset_mm(product)
             picked == NewlyImported(imported, new_entities_count)
         IN [k \in 1..Len(imported) |->
               IF k \in picked
               THEN Translate(imported[k], translate_x, translate_y)
               ELSE imported[k]]

\* The parts of the state a specification of another component leaves alone.
DxfIdle ==
    /\ dxfFiles = [id \in DxfIds |-> Missing]
    /\ dxfProducts = <<>>
    /\ dxfMsp = <<>>
    /\ dxfFirstZ = 0
    /\ dxfI = 0
    /\ dxfPc = "ready"
    /\ dxfSaved = <<>>

TrIdle ==
    /\ trProduct = [position |-> <<0, 0, 0>>, rotation |-> <<0, 0, 0>>,
                    scale |-> <<1, 1, 1>>]
    /\ trPoint = <<0, 0, 0>>
    /\ trTrsf = [scale |-> 1, matrix |-> <<<<1, 0, 0>>, <<0, 1, 0>>, <<0, 0, 1>>>>,
                 loc |-> <<0, 0, 0>>]
    /\ trImage = <<0, 0, 0>>
    /\ trPc = "ready"

StIdle ==
    /\ stFiles = [id \in {"s1", "s2", "s3"} |-> "missing"]
    /\ stProducts = <<>>
    /\ stShapes = <<>>
    /\ stI = 0
    /\ stCalls = 0
    /\ stPc = "ready"
    /\ stExported = <<>>

NoRequest ==
    [endpoint |-> "none",
     assemblyData |-> [text |-> "absent",
                       products |-> [kind |-> "absent", items |-> <<>>],
                       fileName |-> [given |-> FALSE, value |-> <<>>]],
     files |-> <<>>,
     form |-> [section_z |-> "absent"]]

NoLocals ==
    [products |-> <<>>, file_name |-> <<>>, uploaded_files |-> <<>>,
     missing_files |-> <<>>, filename |-> <<>>, success |-> FALSE,
     dxf_success |-> FALSE, cleanup |-> FALSE, events |-> <<>>, raised |-> {}]

NoResponse ==
    [status |-> 0, error |-> "none", missingProducts |-> <<>>, entries |-> {}]

SrvIdle ==
    /\ rq = [r \in {"u1", "u2"} |-> NoRequest]
    /\ pc = [r \in {"u1", "u2"} |-> "idle"]
    /\ loc = [r \in {"u1", "u2"} |-> NoLocals]
    /\ resp = [r \in {"u1", "u2"} |-> NoResponse]
    /\ dirs = {}
    /\ fs = <<>>

NoArgs ==
    [stp |-> "missing", output_name |-> [given |-> FALSE, value |-> <<>>],
     views |-> [given |-> FALSE, value |-> <<>>],
     section_z |-> [given |-> FALSE, value |-> 0], bbox |-> TRUE]

NoResult ==
    [success |-> FALSE, output_path |-> [folder |-> "", name |-> <<>>],
     message |-> "unset"]

CvIdle ==
    /\ cvArgs = [c \in {"A", "B"} |-> NoArgs]
    /\ cvFiles = {}
    /\ cvDoc = [c \in {"A", "B"} |-> <<>>]
    /\ cvResult = [c \in {"A", "B"} |-> NoResult]
    /\ cvPc = [c \in {"A", "B"} |-> "ready"]

LdIdle ==
    /\ ldProducts = <<>>
    /\ ldData = <<>>
    /\ ldRaised = "none"
    /\ ldPc = "fresh"

DxfInit ==
    /\ dxfFiles \in [DxfIds -> DxfContents]
    /\ dxfProducts = <<>>
    /\ dxfMsp = <<>>
    /\ dxfFirstZ = 0
    /\ dxfI = 0
    /\ dxfPc = "ready"
    /\ dxfSaved = <<>>
    /\ TrIdle
    /\ StIdle
    /\ SrvIdle
    /\ CvIdle
    /\ LdIdle

DxfLoadAssemblyData ==
    /\ dxfPc = "ready"
    /\ \E assembly_data \in SeqsUpTo(DxfData, MaxProducts) :
         dxfProducts' = [k \in 1..Len(assembly_data) |-> DXFProduct(assembly_data[k])]
    /\ UNCHANGED <<dxfFiles, dxfMsp, dxfFirstZ, dxfI, dxfPc, dxfSaved>>
    /\ UNCHANGED notDxf

DxfAssembleBegin ==
    /\ dxfPc = "ready"
    /\ IF dxfProducts = <<>>
       THEN /\ dxfPc' = "failed"
            /\ UNCHANGED <<dxfMsp, dxfFirstZ, dxfI>>
       ELSE /\ dxfMsp' = <<>>
            /\ dxfFirstZ' = z_offset_mm(dxfProducts[1])
            /\ dxfI' = 1
            /\ dxfPc' = "loop"
    /\ UNCHANGED <<dxfFiles, dxfProducts, dxfSaved>>
    /\ UNCHANGED notDxf

DxfAssembleStep ==
    /\ dxfPc = "loop"
    /\ dxfI <= Len(dxfProducts)
    /\ dxfMsp' = ProcessProduct(dxfMsp, dxfProducts[dxfI], dxfI,
                                dxfFiles[dxfProducts[dxfI].product_id], dxfFirstZ)
    /\ dxfI' = dxfI + 1
    /\ UNCHANGED <<dxfFiles, dxfProducts, dxfFirstZ, dxfPc, dxfSaved>>
    /\ UNCHANGED notDxf

DxfAssembleEnd ==
    /\ dxfPc = "loop"
    /\ dxfI > Len(dxfProducts)
    /\ IF Len(dxfMsp) = 0
       THEN /\ dxfPc' = "failed"
            /\ UNCHANGED dxfSaved
       ELSE \E saved \in BOOLEAN :
              IF saved
              THEN dxfSaved' = dxfMsp /\ dxfPc' = "done"
              ELSE dxfPc' = "failed" /\ UNCHANGED dxfSaved
    /\ UNCHANGED <<dxfFiles, dxfProducts, dxfMsp, dxfFirstZ, dxfI>>
    /\ UNCHANGED notDxf

DxfNext ==
    \/ DxfLoadAssemblyData
    \/ DxfAssembleBegin
    \/ DxfAssembleStep
    \/ DxfAssembleEnd

-----------------------------------------------------------------------------
(* STEPAssembler._create_transformation *)

\* Angles are whole quarter turns; Cos and Sin are exact on them.
Cos(q) == CASE q % 4 = 0 -> 1 [] q % 4 = 1 -> 0 [] q % 4 = 2 -> -1 [] OTHER -> 0
Sin(q) == CASE q % 4 = 0 -> 0 [] q % 4 = 1 -> 1 [] q % 4 = 2 -> 0 [] OTHER -> -1

Identity3 == <<<<1, 0, 0>>, <<0, 1, 0>>, <<0, 0, 1>>>>

MatMul(A, B) ==
    [r \in 1..3 |-> [c \in 1..3 |->
        A[r][1] * B[1][c] + A[r][2] * B[2][c] + A[r][3] * B[3][c]]]

MatVec(A, v) ==
    [r \in 1..3 |-> A[r][1] * v[1] + A[r][2] * v[2] + A[r][3] * v[3]]

VecAdd(u, v) == [k \in 1..3 |-> u[k] + v[k]]

VecScale(f, v) == [k \in 1..3 |-> f * v[k]]

\* gp_Trsf(): the identity.
gp_Trsf == [scale |-> 1, matrix |-> Identity3, loc |-> <<0, 0, 0>>]

\* gp_Trsf.SetRotation(gp_Ax1(origin, axis), angle), axis 1 = X, 2 = Y, 3 = Z.
SetRotation(axis, q) ==
    [scale |-> 1,
     matrix |->
        CASE axis = 1 -> <<<<1, 0, 0>>, <<0, Cos(q), -Sin(q)>>, <<0, Sin(q), Cos(q)>>>>
          [] axis = 2 -> <<<<Cos(q), 0, Sin(q)>>, <<0, 1, 0>>, <<-Sin(q), 0, Cos(q)>>>>
          [] OTHER    -> <<<<Cos(q), -Sin(q), 0>>, <<Sin(q), Cos(q), 0>>, <<0, 0, 1>>>>,
     loc |-> <<0, 0, 0>>]

\* gp_Trsf.SetTranslation(gp_Vec(tx, ty, tz)).
SetTranslation(v) == [scale |-> 1, matrix |-> Identity3, loc |-> v]

\* a.Multiplied(b) is a * b: the transformation that applies b first, then a.
Multiplied(a, b) ==
    [scale |-> a.scale * b.scale,
     matrix |-> MatMul(a.matrix, b.matrix),
     loc |-> VecAdd(a.loc, VecScale(a.scale, MatVec(a.matrix, b.loc)))]

\* The image of point p under a gp_Trsf.
Transforms(trsf, p) ==
    VecAdd(VecScale(trsf.scale, MatVec(trsf.matrix, p)), trsf.loc)

_meters_to_mm(meters) == meters * MmPerMeter

_create_transformation(product) ==
    LET tx == _meters_to_mm(product.position[1])
        ty == _meters_to_mm(product.position[2])
        tz == _meters_to_mm(product.position[3])
        rx == product.rotation[1]
        ry == product.rotation[2]
        rz == product.rotation[3]
        t0 == gp_Trsf
        t1 == IF rx # 0 THEN Multiplied(t0, SetRotation(1, rx)) ELSE t0
        t2 == IF ry # 0 THEN Multiplied(t1, SetRotation(2, ry)) ELSE t1
        t3 == IF rz # 0 THEN Multiplied(t2, SetRotation(3, rz)) ELSE t2
        trans == SetTranslation(<<tx, ty, tz>>)
    IN Multiplied(t3, trans)

\* BRepBuilderAPI_Transform(shape, trsf, True).Shape(), on one point of the shape.
_apply_transformation(p, trsf) == Transforms(trsf, p)

RotVals == {0, 1, 2}
TrScales == {<<1, 1, 1>>, <<2, 2, 2>>}
TrPoints == {<<0, 0, 0>>, <<1, 2, 3>>}

AssemblyProducts ==
    [position : PosVals \X PosVals \X PosVals,
     rotation : RotVals \X RotVals \X RotVals,
     scale : TrScales]

TrInit ==
    /\ trProduct \in AssemblyProducts
    /\ trPoint \in TrPoints
    /\ trTrsf = gp_Trsf
    /\ trImage = trPoint
    /\ trPc = "ready"
    /\ DxfIdle
    /\ StIdle
    /\ SrvIdle
    /\ CvIdle
    /\ LdIdle

TrTransform ==
    /\ trPc = "ready"
    /\ trTrsf' = _create_transformation(trProduct)
    /\ trImage' = _apply_transformation(trPoint, trTrsf')
    /\ trPc' = "done"
    /\ UNCHANGED <<trProduct, trPoint>>
    /\ UNCHANGED notTr

TrNext == TrTransform

-----------------------------------------------------------------------------
(* STEPAssembler.assemble *)

StIds == {"s1", "s2", "s3"}
StFileStates == {"missing", "corrupt", "ok"}

\* A variant of the loop body that puts the new shape first.
StProcessProductPrepend(shapes, product_id, i, file) ==
    IF file = "missing" THEN shapes
    ELSE IF file = "corrupt" THEN shapes
    ELSE <<[product_id |-> product_id, index |-> i]>> \o shapes

\* One iteration of the loop of assemble() for the product at position i: a
\* missing file and a raising import are both skipped (continue).
StProcessProduct(shapes, product_id, i, file) ==
    IF file = "missing" THEN shapes
    ELSE IF file = "corrupt" THEN shapes
    ELSE Append(shapes, [product_id |-> product_id, index |-> i])

StInit ==
    /\ stFiles \in [StIds -> StFileStates]
    /\ stProducts = <<>>
    /\ stShapes = <<>>
    /\ stI = 0
    /\ stCalls = 0
    /\ stPc = "ready"
    /\ stExported = <<>>
    /\ DxfIdle
    /\ TrIdle
    /\ SrvIdle
    /\ CvIdle
    /\ LdIdle

StLoadAssemblyData ==
    /\ stPc = "ready"
    /\ \E ids \in SeqsUpTo(StIds, MaxStProducts) : stProducts' = ids
    /\ UNCHANGED <<stFiles, stShapes, stI, stCalls, stPc, stExported>>
    /\ UNCHANGED notSt

StAssembleBegin ==
    /\ stPc \in {"ready", "done", "failed_empty", "failed_exc"}
    /\ stCalls < MaxCalls
    /\ stCalls' = stCalls + 1
    /\ stI' = 1
    /\ stPc' = "loop"
    /\ UNCHANGED <<stFiles, stProducts, stShapes, stExported>>
    /\ UNCHANGED notSt

StAssembleStep ==
    /\ stPc = "loop"
    /\ stI <= Len(stProducts)
    /\ stShapes' = StProcessProduct(stShapes, stProducts[stI], stI,
                                    stFiles[stProducts[stI]])
    /\ stI' = stI + 1
    /\ UNCHANGED <<stFiles, stProducts, stCalls, stPc, stExported>>
    /\ UNCHANGED notSt

StAssembleEnd ==
    /\ stPc = "loop"
    /\ stI > Len(stProducts)
    /\ IF stShapes = <<>>
       THEN /\ stPc' = "failed_empty"
            /\ UNCHANGED stExported
       ELSE \E exported \in BOOLEAN :
              IF exported
              THEN stExported' = stShapes /\ stPc' = "done"
              ELSE stPc' = "failed_exc" /\ UNCHANGED stExported
    /\ UNCHANGED <<stFiles, stProducts, stShapes, stI, stCalls>>
    /\ UNCHANGED notSt

StNext ==
    \/ StLoadAssemblyData
    \/ StAssembleBegin
    \/ StAssembleStep
    \/ StAssembleEnd

-----------------------------------------------------------------------------
(* AssemblyProduct.__init__, DXFProduct.__init__ and load_assembly_data *)

\* The elements of a JSON array: an integer, a string (whose text is a
\* number or not) or null.
JsonInt(n) == [type |-> "int", numeric |-> TRUE, value |-> n]
JsonNumStr(n) == [type |-> "str", numeric |-> TRUE, value |-> n]
JsonText == [type |-> "str", numeric |-> FALSE, value |-> 0]
JsonNull == [type |-> "null", numeric |-> FALSE, value |-> 0]

\* The value under a key of the record: the key is absent, or null, or a list.
Absent == [kind |-> "absent", items |-> <<>>]
NullValue == [kind |-> "null", items |-> <<>>]
ListOf(items) == [kind |-> "list", items |-> items]

\* float(x): a float for an integer or for a string that spells a number,
\* ValueError for another string, TypeError for None.
Float(x) ==
    IF x.type = "null" THEN [raised |-> "TypeError", value |-> 0]
    ELSE IF ~x.numeric THEN [raised |-> "ValueError", value |-> 0]
    ELSE [raised |-> "none", value |-> x.value]

\* A variant of the coercion that takes the default for a list that is too
\* short instead of raising.
CoerceVecLenient(raw, default) ==
    LET v == IF raw.kind = "absent" \/ Len(raw.items) < 3 THEN default ELSE raw.items
        f == [k \in 1..3 |-> Float(v[k])]
        bad == {k \in 1..3 : f[k].raised # "none"}
    IN IF raw.kind = "null" THEN [raised |-> "TypeError", value |-> <<>>]
       ELSE IF bad # {}
       THEN [raised |-> f[CHOOSE k \in bad : \A j \in bad : k <= j].raised,
             value |-> <<>>]
       ELSE [raised |-> "none",
             value |-> [k \in 1..3 |-> [type |-> "float", value |-> f[k].value]]]

\* v = data.get(key, default); (float(v[0]), float(v[1]), float(v[2])):
\* the first exception raised, left to right, or the tuple of floats.
CoerceVec(raw, default) ==
    LET v == IF raw.kind = "absent" THEN default ELSE raw.items
        n == IF Len(v) < 3 THEN Len(v) ELSE 3
        f == [k \in 1..n |-> Float(v[k])]
        bad == {k \in 1..n : f[k].raised # "none"}
    IN IF raw.kind = "null" THEN [raised |-> "TypeError", value |-> <<>>]
       ELSE IF bad # {}
       THEN [raised |-> f[CHOOSE k \in bad : \A j \in bad : k <= j].raised,
             value |-> <<>>]
       ELSE IF Len(v) < 3 THEN [raised |-> "IndexError", value |-> <<>>]
       ELSE [raised |-> "none",
             value |-> [k \in 1..3 |-> [type |-> "float", value |-> f[k].value]]]

DefaultPosition == <<JsonInt(0), JsonInt(0), JsonInt(0)>>
DefaultRotation == <<JsonInt(0), JsonInt(0), JsonInt(0)>>
DefaultScale == <<JsonInt(1), JsonInt(1), JsonInt(1)>>

\* AssemblyProduct(data), DXFProduct(data): position, then rotation, then scale.
AssemblyProduct(data) ==
    LET position == CoerceVec(data.position, DefaultPosition)
        rotation == CoerceVec(data.rotation, DefaultRotation)
        scale == CoerceVec(data.scale, DefaultScale)
        raised == IF position.raised # "none" THEN position.raised
                  ELSE IF rotation.raised # "none" THEN rotation.raised
                  ELSE scale.raised
    IN [raised |-> raised,
        product |-> [position |-> position.value, rotation |-> rotation.value,
                     scale |-> scale.value]]

\* self.products = [AssemblyProduct(p) for p in assembly_data]: the list is
\* built first, and assigned only if no element raised.
load_assembly_data(products, assembly_data) ==
    LET built == [k \in 1..Len(assembly_data) |-> AssemblyProduct(assembly_data[k])]
        bad == {k \in 1..Len(built) : built[k].raised # "none"}
    IN IF bad # {}
       THEN [raised |-> built[CHOOSE k \in bad : \A j \in bad : k <= j].raised,
             products |-> products]
       ELSE [raised |-> "none",
             products |-> [k \in 1..Len(built) |-> built[k].product]]

\* The transform fields of a record with none of the three keys, and of a
\* record whose scale holds a string that is no number.
RawDefaults == [position |-> Absent, rotation |-> Absent, scale |-> Absent]

RawBadText ==
    [position |-> Absent, rotation |-> Absent,
     scale |-> ListOf(<<JsonInt(1), JsonText, JsonInt(1)>>)]

\* The records given to load_assembly_data.
RawRecords ==
    {RawDefaults,
     RawBadText,
     [position |-> ListOf(<<JsonInt(1), JsonInt(2), JsonInt(3)>>),
      rotation |-> Absent,
      scale |-> ListOf(<<JsonInt(2), JsonInt(2), JsonInt(2)>>)],
     [position |-> ListOf(<<JsonInt(1), JsonInt(2)>>),
      rotation |-> Absent, scale |-> Absent],
     [position |-> Absent,
      rotation |-> ListOf(<<JsonInt(0), JsonNumStr(1), JsonInt(0)>>),
      scale |-> Absent],
     [position |-> Absent, rotation |-> NullValue, scale |-> Absent]}

LdInit ==
    /\ ldProducts = <<>>
    /\ ldData = <<>>
    /\ ldRaised = "none"
    /\ ldPc = "fresh"
    /\ DxfIdle
    /\ TrIdle
    /\ StIdle
    /\ SrvIdle
    /\ CvIdle

\* assembler.load_assembly_data(assembly_data), on a new assembler and once
\* more on the same one.
LdLoad ==
    /\ ldPc \in {"fresh", "loaded"}
    /\ \E assembly_data \in SeqsUpTo(RawRecords, MaxRecords) :
         LET out == load_assembly_data(ldProducts, assembly_data)
         IN /\ ldData' = assembly_data
            /\ ldProducts' = out.products
            /\ ldRaised' = out.raised
    /\ ldPc' = IF ldPc = "fresh" THEN "loaded" ELSE "reloaded"
    /\ UNCHANGED notLd

-----------------------------------------------------------------------------
(* The Flask server: strings, paths and requests *)

\* Strings that the code takes apart are sequences of characters.
DotStp == <<".", "s", "t", "p">>
DotStep == <<".", "s", "t", "e", "p">>
DotDxf == <<".", "d", "x", "f">>
DotZip == <<".", "z", "i", "p">>
StpPrefix == <<"s", "t", "p", "_">>
FileKey == <<"f", "i", "l", "e">>

StartsWith(str, prefix) ==
    Len(str) >= Len(prefix) /\ SubSeq(str, 1, Len(prefix)) = prefix

EndsWith(str, suffix) ==
    Len(str) >= Len(suffix)
    /\ SubSeq(str, Len(str) - Len(suffix) + 1, Len(str)) = suffix

RECURSIVE LStrip(_, _)
LStrip(str, chars) ==
    IF str = <<>> \/ str[1] \notin chars THEN str ELSE LStrip(Tail(str), chars)

RECURSIVE RStrip(_, _)
RStrip(str, chars) ==
    IF str = <<>> \/ str[Len(str)] \notin chars
    THEN str
    ELSE RStrip(SubSeq(str, 1, Len(str) - 1), chars)

Strip(str, chars) == RStrip(LStrip(str, chars), chars)

\* "_".join(str.split()) for a string without leading or trailing whitespace.
RECURSIVE JoinRuns(_)
JoinRuns(str) ==
    IF str = <<>> THEN <<>>
    ELSE IF str[1] = " " THEN <<"_">> \o JoinRuns(LStrip(str, {" "}))
    ELSE <<str[1]>> \o JoinRuns(Tail(str))

\* The characters werkzeug's _filename_ascii_strip_re removes, among those the
\* model's strings hold.
UnsafeChars == {" ", "/", "$"}

IsSafeChar(c) == c \notin UnsafeChars

\* werkzeug.utils.secure_filename: path separators become spaces, runs of
\* whitespace become one "_", unsafe characters are removed, leading and
\* trailing "." and "_" are stripped.
secure_filename(filename) ==
    LET spaced == [k \in 1..Len(filename) |->
                     IF filename[k] = "/" THEN " " ELSE filename[k]]
        joined == JoinRuns(Strip(spaced, {" "}))
        kept == SelectSeq(joined, IsSafeChar)
    IN Strip(kept, {".", "_"})

DotDotSlash == <<".", ".", "/">>

\* os.path.join(session_folder, name) as the file system resolves it: a
\* leading "../" leaves the session folder for UPLOAD_FOLDER itself.
SessionPath(r, name) ==
    IF StartsWith(name, DotDotSlash)
    THEN [dir |-> "uploads", session |-> "-", name |-> SubSeq(name, 4, Len(name))]
    ELSE [dir |-> "uploads", session |-> r, name |-> name]

\* os.path.join(OUTPUT_FOLDER, name).
OutputPath(name) == [dir |-> "output", session |-> "-", name |-> name]

\* A file can be created at the path: no component of its name is a folder
\* that does not exist ("<session_id>_.." in OUTPUT_FOLDER).
Writable(path) == \A k \in 1..Len(path.name) : path.name[k] # "/"

Exists(files, path) == path \in DOMAIN files

WriteFile(files, path, content) ==
    [q \in DOMAIN files \cup {path} |-> IF q = path THEN content ELSE files[q]]

RemoveFiles(files, paths) == [q \in DOMAIN files \ paths |-> files[q]]

\* shutil.rmtree(session_folder): the files of the folder.
FilesOf(files, r) == {q \in DOMAIN files : q.dir = "uploads" /\ q.session = r}

SessionIds == {"u1", "u2"}

ProductIds == {<<"a">>, <<"a", " ", "b">>, <<"a", "_", "b">>}

\* The elements of a products array: objects with a productId and transform
\* fields that AssemblyProduct accepts or rejects, and one element that is no
\* object.
ProductItems ==
    [isdict : {TRUE}, productId : ProductIds, transform : {RawDefaults}]
    \cup {[isdict |-> TRUE, productId |-> <<"a">>, transform |-> RawBadText],
          [isdict |-> FALSE, productId |-> <<>>, transform |-> RawDefaults]}

ProductsValues ==
    {[kind |-> k, items |-> <<>>] : k \in {"absent", "truthy_nonlist", "falsy_nonlist"}}
    \cup {[kind |-> "list", items |-> items] : items \in SeqsUpTo(ProductItems, MaxReqProducts)}

FileNameDefault == <<"Assembly">>

FileNameValues ==
    {[given |-> FALSE, value |-> <<>>], [given |-> TRUE, value |-> <<"a">>]}

\* The assemblyData form field: absent, the empty string, text that is no
\* JSON, JSON that is no object (an array), or a JSON object.
AssemblyDataValues ==
    {[text |-> t, products |-> [kind |-> "absent", items |-> <<>>],
      fileName |-> [given |-> FALSE, value |-> <<>>]] :
        t \in {"absent", "empty", "invalid", "array"}}
    \cup [text : {"object"}, products : ProductsValues, fileName : FileNameValues]

\* request.files: uploads under distinct field names, in the order sent.
StpUploads ==
    [key : {StpPrefix \o id : id \in ProductIds} \cup {<<"o">>},
     filename : {<<"x", ".", "s", "t", "p">>},
     content : {"ok", "corrupt"}]

DistinctKeys(files) ==
    \A i, j \in 1..Len(files) : i # j => files[i].key # files[j].key

AssemblyRequests(endpoint) ==
    {[endpoint |-> endpoint, assemblyData |-> d, files |-> f,
      form |-> [section_z |-> "absent"]] :
        d \in AssemblyDataValues,
        f \in {g \in SeqsUpTo(StpUploads, MaxUploads) : DistinctKeys(g)}}

Event(l, e) == [l EXCEPT !.events = Append(@, e)]

\* An exception of class exc is raised in the handler's try body.
Raise(l, exc) == [l EXCEPT !.raised = @ \cup {exc}]

JsonError(status, error) ==
    [status |-> status, error |-> error, missingProducts |-> <<>>, entries |-> {}]

-----------------------------------------------------------------------------
(* POST /assemble and POST /convert-assembly-to-dxf *)

SrvInit ==
    /\ rq = [r \in SessionIds |-> NoRequest]
    /\ pc = [r \in SessionIds |-> "idle"]
    /\ loc = [r \in SessionIds |-> NoLocals]
    /\ resp = [r \in SessionIds |-> NoResponse]
    /\ dirs = {}
    /\ fs = <<>>
    /\ DxfIdle
    /\ TrIdle
    /\ StIdle
    /\ CvIdle
    /\ LdIdle

\* A request out of the set requests arrives: session_id = uuid4(),
\* os.makedirs(session_folder).
SrvStartFrom(r, requests) ==
    /\ pc[r] = "idle"
    /\ \E request \in requests : rq' = [rq EXCEPT ![r] = request]
    /\ dirs' = dirs \cup {r}
    /\ loc' = [loc EXCEPT ![r] = Event(@, "makedirs")]
    /\ pc' = [pc EXCEPT ![r] = "parse"]
    /\ UNCHANGED <<resp, fs>>
    /\ UNCHANGED notSrv

SrvStartAssembly(r) ==
    SrvStartFrom(r, AssemblyRequests("assemble")
                    \cup AssemblyRequests("convert_assembly"))

\* The requests of two clients at once: one product, at most one upload,
\* fileName and productId plain or leading out of the session folder.
TraversalName == <<".", ".", "/", "s">>

ConcurrentRequests ==
    {[endpoint |-> endpoint,
      assemblyData |->
          [text |-> "object",
           products |-> [kind |-> "list",
                         items |-> <<[isdict |-> TRUE, productId |-> id,
                                      transform |-> RawDefaults]>>],
           fileName |-> [given |-> TRUE, value |-> name]],
      files |-> f,
      form |-> [section_z |-> "absent"]] :
        endpoint \in {"assemble", "convert_assembly"},
        id \in {<<"a">>, TraversalName},
        name \in {<<"a">>, TraversalName},
        f \in {<<>>,
               <<[key |-> StpPrefix \o <<"a">>, filename |-> <<"x", ".", "s", "t", "p">>,
                  content |-> "ok"]>>}}

SrvStartConcurrent(r) == SrvStartFrom(r, ConcurrentRequests)

\* Requests of /assemble with one product, its STEP file uploaded, and any
\* of the transform records.
LoadRequests ==
    {[endpoint |-> "assemble",
      assemblyData |->
          [text |-> "object",
           products |-> [kind |-> "list",
                         items |-> <<[isdict |-> TRUE, productId |-> <<"a">>,
                                      transform |-> raw]>>],
           fileName |-> [given |-> TRUE, value |-> <<"a">>]],
      files |-> <<[key |-> StpPrefix \o <<"a">>, filename |-> <<"x", ".", "s", "t", "p">>,
                   content |-> "ok"]>>,
      form |-> [section_z |-> "absent"]] : raw \in RawRecords}

SrvStartLoad(r) == SrvStartFrom(r, LoadRequests)

\* Parse and validate assemblyData.
SrvParse(r) ==
    /\ pc[r] = "parse"
    /\ LET data == rq[r].assemblyData
           products == IF data.products.kind = "absent" THEN <<>>
                       ELSE data.products.items
           file_name == IF data.fileName.given THEN data.fileName.value
                        ELSE FileNameDefault
       IN IF data.text \in {"absent", "empty"}
          THEN /\ resp' = [resp EXCEPT ![r] = JsonError(400, "No assembly data provided")]
               /\ pc' = [pc EXCEPT ![r] = "responded"]
               /\ UNCHANGED loc
          ELSE IF data.text = "invalid"
          THEN \* json.loads raises JSONDecodeError, caught by the inner try
               /\ resp' = [resp EXCEPT ![r] = JsonError(400, "Invalid JSON in assemblyData")]
               /\ pc' = [pc EXCEPT ![r] = "responded"]
               /\ loc' = [loc EXCEPT ![r] = Raise(@, "JSONDecodeError")]
          ELSE IF data.text # "object"
          THEN \* assembly_data.get raises AttributeError
               /\ pc' = [pc EXCEPT ![r] = "except"]
               /\ loc' = [loc EXCEPT ![r] = Raise(@, "AttributeError")]
               /\ UNCHANGED resp
          ELSE IF data.products.kind \in {"absent", "falsy_nonlist", "truthy_nonlist"}
                  \/ products = <<>>
          THEN /\ resp' = [resp EXCEPT ![r] = JsonError(400, "No products provided")]
               /\ pc' = [pc EXCEPT ![r] = "responded"]
               /\ UNCHANGED loc
          ELSE /\ loc' = [loc EXCEPT ![r].products = products,
                                     ![r].file_name = file_name]
               /\ pc' = [pc EXCEPT ![r] = "save"]
               /\ UNCHANGED resp
    /\ UNCHANGED <<rq, dirs, fs>>
    /\ UNCHANGED notSrv

\* The loop "for key in request.files" over the first n uploads: the files
\* after, and the product ids appended to uploaded_files.
RECURSIVE SavedFiles(_, _, _, _)
SavedFiles(files, r, uploads, n) ==
    IF n = 0 THEN files
    ELSE LET before == SavedFiles(files, r, uploads, n - 1)
             key == uploads[n].key
         IN IF StartsWith(key, StpPrefix)
            THEN LET product_id == SubSeq(key, 5, Len(key))
                     filename == secure_filename(product_id \o DotStp)
                 IN WriteFile(before, SessionPath(r, filename), uploads[n].content)
            ELSE before

UploadedIds(uploads) ==
    LET stp == SelectSeq(uploads, LAMBDA u : StartsWith(u.key, StpPrefix))
    IN [k \in 1..Len(stp) |-> SubSeq(stp[k].key, 5, Len(stp[k].key))]

RECURSIVE Events(_, _, _)
Events(l, e, n) == IF n = 0 THEN l ELSE Event(Events(l, e, n - 1), e)

\* Save the uploaded STP files to the session folder; file.save may raise.
SrvSaveUploads(r) ==
    /\ pc[r] = "save"
    /\ LET uploaded == UploadedIds(rq[r].files)
       IN \/ /\ fs' = SavedFiles(fs, r, rq[r].files, Len(rq[r].files))
             /\ loc' = [loc EXCEPT ![r] =
                          Events([@ EXCEPT !.uploaded_files = uploaded],
                                 "file.save", Len(uploaded))]
             /\ pc' = [pc EXCEPT ![r] = "check"]
          \/ /\ uploaded # <<>>
             /\ pc' = [pc EXCEPT ![r] = "except"]
             /\ loc' = [loc EXCEPT ![r] = Raise(@, "OSError")]
             /\ UNCHANGED fs
    /\ UNCHANGED <<rq, resp, dirs>>
    /\ UNCHANGED notSrv

\* The loop building missing_files.
MissingFiles(files, r, products) ==
    LET absent(product) ==
            ~Exists(files, SessionPath(r, product.productId \o DotStp))
        missing == SelectSeq(products, absent)
    IN [k \in 1..Len(missing) |-> missing[k].productId]

\* Check that every product's STEP file exists in the session folder.
SrvCheckMissing(r) ==
    /\ pc[r] = "check"
    /\ IF \E k \in 1..Len(loc[r].products) : ~loc[r].products[k].isdict
       THEN \* product.get raises AttributeError
            /\ pc' = [pc EXCEPT ![r] = "except"]
            /\ loc' = [loc EXCEPT ![r] = Raise(@, "AttributeError")]
            /\ UNCHANGED resp
       ELSE LET missing_files == MissingFiles(fs, r, loc[r].products)
            IN /\ loc' = [loc EXCEPT ![r] =
                            Event([@ EXCEPT !.missing_files = missing_files], "check")]
               /\ IF missing_files # <<>>
                  THEN /\ resp' = [resp EXCEPT ![r] =
                                     [JsonError(400, "Missing STEP files")
                                        EXCEPT !.missingProducts = missing_files]]
                       /\ pc' = [pc EXCEPT ![r] = "responded"]
                  ELSE /\ pc' = [pc EXCEPT ![r] = "assemble"]
                       /\ UNCHANGED resp
    /\ UNCHANGED <<rq, dirs, fs>>
    /\ UNCHANGED notSrv

\* What STEPAssembler.assemble finds at session_folder/<product_id>.stp.
StpFileState(files, r, product_id) ==
    LET path == SessionPath(r, product_id \o DotStp)
    IN IF ~Exists(files, path) THEN "missing"
       ELSE IF files[path] = "corrupt" THEN "corrupt"
       ELSE "ok"

\* The loop of STEPAssembler.assemble over the first n products.
RECURSIVE StAssembleAll(_, _, _, _)
StAssembleAll(files, r, products, n) ==
    IF n = 0 THEN <<>>
    ELSE StProcessProduct(StAssembleAll(files, r, products, n - 1),
                          products[n].productId, n,
                          StpFileState(files, r, products[n].productId))

\* output_path of the assembler: OUTPUT_FOLDER/<session_id>_<file_name>.stp
\* in /assemble, session_folder/<file_name>.stp in /convert-assembly-to-dxf.
AssemblyStpPath(r, endpoint, file_name) ==
    IF endpoint = "assemble"
    THEN OutputPath(<<r, "_">> \o file_name \o DotStp)
    ELSE SessionPath(r, file_name \o DotStp)

ZipPath(r, file_name) == OutputPath(<<r, "_">> \o file_name \o DotZip)

\* export_step either writes the file, raises, or returns without a file.
ExportOutcomes == {"written", "raised", "no_file"}

\* The outcomes of export_step at output_path.
ExportOutcomesAt(output_path) ==
    IF Writable(output_path) THEN ExportOutcomes ELSE {"raised", "no_file"}

\* A variant of the check after assemble() that tests only its return value.
AssemblyErrorReturnOnly(endpoint, success, exists) ==
    IF ~success THEN "Assembly failed"
    ELSE IF endpoint = "assemble" /\ ~exists THEN "Output file not created"
    ELSE "none"

\* The checks after assembler.assemble(): the error of the 500 response, or
\* "none". /assemble tests "not success", then the output file;
\* /convert-assembly-to-dxf tests "not success or not os.path.exists(...)".
AssemblyError(endpoint, success, exists) ==
    IF endpoint = "assemble"
    THEN IF ~success THEN "Assembly failed"
         ELSE IF ~exists THEN "Output file not created"
         ELSE "none"
    ELSE IF ~success \/ ~exists THEN "Assembly failed"
         ELSE "none"

\* Create the assembler, load the products, assemble, and check the outcome.
SrvAssemble(r) ==
    /\ pc[r] = "assemble"
    /\ LET products == loc[r].products
           output_path == AssemblyStpPath(r, rq[r].endpoint, loc[r].file_name)
           shapes == StAssembleAll(fs, r, products, Len(products))
           loaded == load_assembly_data(
                         <<>>, [k \in 1..Len(products) |-> products[k].transform])
       IN IF loaded.raised # "none"
          THEN \* AssemblyProduct.__init__ raises in load_assembly_data
               /\ pc' = [pc EXCEPT ![r] = "except"]
               /\ loc' = [loc EXCEPT ![r] = Raise(@, loaded.raised)]
               /\ UNCHANGED <<resp, fs>>
          ELSE \E export \in ExportOutcomesAt(output_path) :
                 LET success == shapes # <<>> /\ export # "raised"
                     files == IF shapes # <<>> /\ export = "written"
                              THEN WriteFile(fs, output_path, "assembly")
                              ELSE fs
                     error == AssemblyError(rq[r].endpoint, success,
                                            Exists(files, output_path))
                 IN /\ fs' = files
                    /\ loc' = [loc EXCEPT ![r] =
                                 Event([@ EXCEPT !.success = success], "assemble")]
                    /\ IF error # "none"
                       THEN /\ resp' = [resp EXCEPT ![r] = JsonError(500, error)]
                            /\ pc' = [pc EXCEPT ![r] = "responded"]
                       ELSE /\ pc' = [pc EXCEPT ![r] =
                                        IF rq[r].endpoint = "assemble"
                                        THEN "zip" ELSE "to_dxf"]
                            /\ UNCHANGED resp
    /\ UNCHANGED <<rq, dirs>>
    /\ UNCHANGED notSrv

\* STPtoDXFConverter.convert: (success, the files after). The STEP file must
\* exist and import; writing the DXF (doc.saveas) may fail.
Convert(files, stp_path, dxf_path, saved) ==
    IF ~Exists(files, stp_path) THEN [success |-> FALSE, files |-> files]
    ELSE IF files[stp_path] = "corrupt" THEN [success |-> FALSE, files |-> files]
    ELSE IF ~saved THEN [success |-> FALSE, files |-> files]
    ELSE [success |-> TRUE, files |-> WriteFile(files, dxf_path, "dxf")]

\* /convert-assembly-to-dxf, step 2: convert the assembly to DXF.
SrvConvertAssembly(r) ==
    /\ pc[r] = "to_dxf"
    /\ rq[r].endpoint = "convert_assembly"
    /\ \E saved \in BOOLEAN :
         LET out == Convert(fs, SessionPath(r, loc[r].file_name \o DotStp),
                            SessionPath(r, loc[r].file_name \o DotDxf), saved)
         IN /\ fs' = out.files
            /\ loc' = [loc EXCEPT ![r] =
                         Event([@ EXCEPT !.dxf_success = out.success], "convert")]
    /\ pc' = [pc EXCEPT ![r] = "zip"]
    /\ UNCHANGED <<rq, resp, dirs>>
    /\ UNCHANGED notSrv

\* A variant of the ZIP step that stores the STEP file under the name it has
\* on disk (no arcname).
ZipEntriesNoArcname(files, r, endpoint, file_name, dxf_success) ==
    {IF endpoint = "assemble" THEN <<r, "_">> \o file_name \o DotStp
     ELSE file_name \o DotStp}
    \cup (IF endpoint = "convert_assembly" /\ dxf_success
             /\ Exists(files, SessionPath(r, file_name \o DotDxf))
          THEN {file_name \o DotDxf} ELSE {})

\* A variant of the ZIP step that never adds the DXF file.
ZipEntriesStepOnly(files, r, endpoint, file_name, dxf_success) ==
    {file_name \o DotStp}

\* The entries written to the ZIP file.
ZipEntries(files, r, endpoint, file_name, dxf_success) ==
    {file_name \o DotStp}
    \cup (IF endpoint = "convert_assembly" /\ dxf_success
             /\ Exists(files, SessionPath(r, file_name \o DotDxf))
          THEN {file_name \o DotDxf} ELSE {})

\* Create the ZIP file in OUTPUT_FOLDER; zipfile.ZipFile raises when the file
\* cannot be created.
SrvZip(r) ==
    /\ pc[r] = "zip"
    /\ IF Writable(ZipPath(r, loc[r].file_name))
       THEN /\ fs' = WriteFile(fs, ZipPath(r, loc[r].file_name),
                               ZipEntries(fs, r, rq[r].endpoint, loc[r].file_name,
                                          loc[r].dxf_success))
            /\ loc' = [loc EXCEPT ![r] = Event(@, "zip")]
            /\ pc' = [pc EXCEPT ![r] =
                         IF rq[r].endpoint = "assemble" THEN "remove_step" ELSE "send"]
       ELSE /\ pc' = [pc EXCEPT ![r] = "except"]
            /\ loc' = [loc EXCEPT ![r] = Raise(@, "FileNotFoundError")]
            /\ UNCHANGED fs
    /\ UNCHANGED <<rq, resp, dirs>>
    /\ UNCHANGED notSrv

\* /assemble: os.remove(output_path), a failure is only logged.
SrvRemoveStep(r) ==
    /\ pc[r] = "remove_step"
    /\ \E removed \in BOOLEAN :
         IF removed
         THEN /\ fs' = RemoveFiles(fs, {AssemblyStpPath(r, "assemble", loc[r].file_name)})
              /\ loc' = [loc EXCEPT ![r] = Event(@, "remove_step")]
         ELSE /\ fs' = fs
              /\ loc' = [loc EXCEPT ![r] =
                           Event(Raise(@, "OSError in os.remove"), "remove_step")]
    /\ pc' = [pc EXCEPT ![r] = "send"]
    /\ UNCHANGED <<rq, resp, dirs>>
    /\ UNCHANGED notSrv

\* send_file(zip_path) and the registration of cleanup with call_on_close.
SrvSendZip(r) ==
    /\ pc[r] = "send"
    /\ rq[r].endpoint \in {"assemble", "convert_assembly"}
    /\ resp' = [resp EXCEPT ![r] =
                  [status |-> 200, error |-> "none", missingProducts |-> <<>>,
                   entries |-> fs[ZipPath(r, loc[r].file_name)]]]
    /\ loc' = [loc EXCEPT ![r] = Event([@ EXCEPT !.cleanup = TRUE], "send")]
    /\ pc' = [pc EXCEPT ![r] = "responded"]
    /\ UNCHANGED <<rq, dirs, fs>>
    /\ UNCHANGED notSrv

-----------------------------------------------------------------------------
(* POST /convert-to-dxf *)

Lower(c) ==
    CASE c = "S" -> "s" [] c = "T" -> "t" [] c = "P" -> "p" [] c = "E" -> "e"
      [] OTHER -> c

\* A variant of str.lower() that leaves the string as it is (a comparison that
\* minds the case).
LowerStrKeepCase(str) == str

LowerStr(str) == [k \in 1..Len(str) |-> Lower(str[k])]

\* os.path.splitext(filename)[0] for a name with a dot after its first character.
SplitextRoot(filename) ==
    LET dots == {k \in 2..Len(filename) : filename[k] = "."}
        last == CHOOSE k \in dots : \A j \in dots : j <= k
    IN IF dots = {} THEN filename ELSE SubSeq(filename, 1, last - 1)

\* The section_z form field: absent, a number, or text float() rejects.
SectionZValues == {"absent", "number", "text"}

ConvFilenames ==
    {<<>>,
     <<"m", ".", "s", "t", "p">>,
     <<"m", ".", "S", "T", "P">>,
     <<"m", ".", "s", "t", "e", "p">>,
     <<"a", " ", "b", ".", "s", "t", "p">>,
     <<".", "s", "t", "p">>,
     <<"m", ".", "t", "x", "t">>}

ConvertRequests ==
    {[endpoint |-> "convert", assemblyData |-> NoRequest.assemblyData, files |-> f,
      form |-> [section_z |-> z]] :
        f \in {<<>>}
              \cup {<<u>> : u \in [key : {FileKey, <<"o">>}, filename : ConvFilenames,
                                  content : {"ok", "corrupt"}]},
        z \in SectionZValues}

SrvStartConvert(r) ==
    /\ pc[r] = "idle"
    /\ \E request \in ConvertRequests : rq' = [rq EXCEPT ![r] = request]
    /\ dirs' = dirs \cup {r}
    /\ loc' = [loc EXCEPT ![r] = Event(@, "makedirs")]
    /\ pc' = [pc EXCEPT ![r] = "validate"]
    /\ UNCHANGED <<resp, fs>>
    /\ UNCHANGED notSrv

HasFile(files) == \E k \in 1..Len(files) : files[k].key = FileKey

TheFile(files) == files[CHOOSE k \in 1..Len(files) : files[k].key = FileKey]

\* Check that a file with a STEP extension is provided.
SrvConvValidate(r) ==
    /\ pc[r] = "validate"
    /\ IF ~HasFile(rq[r].files)
       THEN /\ resp' = [resp EXCEPT ![r] = JsonError(400, "No file provided")]
            /\ pc' = [pc EXCEPT ![r] = "responded"]
            /\ UNCHANGED loc
       ELSE IF TheFile(rq[r].files).filename = <<>>
       THEN /\ resp' = [resp EXCEPT ![r] = JsonError(400, "No file selected")]
            /\ pc' = [pc EXCEPT ![r] = "responded"]
            /\ UNCHANGED loc
       ELSE LET filename == secure_filename(TheFile(rq[r].files).filename)
            IN IF ~(EndsWith(LowerStr(filename), DotStp)
                    \/ EndsWith(LowerStr(filename), DotStep))
               THEN /\ resp' = [resp EXCEPT ![r] = JsonError(400, "Invalid file type")]
                    /\ pc' = [pc EXCEPT ![r] = "responded"]
                    /\ UNCHANGED loc
               ELSE /\ loc' = [loc EXCEPT ![r].filename = filename]
                    /\ pc' = [pc EXCEPT ![r] = "save_file"]
                    /\ UNCHANGED resp
    /\ UNCHANGED <<rq, dirs, fs>>
    /\ UNCHANGED notSrv

\* file.save(input_path); it may raise.
SrvConvSave(r) ==
    /\ pc[r] = "save_file"
    /\ \/ /\ fs' = WriteFile(fs, SessionPath(r, loc[r].filename),
                             TheFile(rq[r].files).content)
          /\ loc' = [loc EXCEPT ![r] = Event(@, "file.save")]
          /\ pc' = [pc EXCEPT ![r] = "convert"]
       \/ /\ pc' = [pc EXCEPT ![r] = "except"]
          /\ loc' = [loc EXCEPT ![r] = Raise(@, "OSError")]
          /\ UNCHANGED fs
    /\ UNCHANGED <<rq, resp, dirs>>
    /\ UNCHANGED notSrv

\* Convert to DXF and check the outcome.
SrvConvert(r) ==
    /\ pc[r] = "convert"
    /\ \E saved \in BOOLEAN :
         LET output_name == SplitextRoot(loc[r].filename)
             output_path == SessionPath(r, output_name \o DotDxf)
             out == Convert(fs, SessionPath(r, loc[r].filename), output_path, saved)
         IN /\ fs' = out.files
            /\ loc' = [loc EXCEPT ![r] =
                         Event([(IF rq[r].form.section_z = "text"
                                 THEN Raise(@, "ValueError in float")
                                 ELSE @)
                                  EXCEPT !.success = out.success,
                                         !.file_name = output_name], "convert")]
            /\ IF ~out.success
               THEN /\ resp' = [resp EXCEPT ![r] = JsonError(500, "Conversion failed")]
                    /\ pc' = [pc EXCEPT ![r] = "responded"]
               ELSE IF ~Exists(out.files, output_path)
               THEN /\ resp' = [resp EXCEPT ![r] = JsonError(500, "Output file not created")]
                    /\ pc' = [pc EXCEPT ![r] = "responded"]
               ELSE /\ pc' = [pc EXCEPT ![r] = "send"]
                    /\ UNCHANGED resp
    /\ UNCHANGED <<rq, dirs>>
    /\ UNCHANGED notSrv

\* send_file(output_path) and the registration of cleanup with call_on_close.
SrvSendDxf(r) ==
    /\ pc[r] = "send"
    /\ rq[r].endpoint = "convert"
    /\ resp' = [resp EXCEPT ![r] =
                  [status |-> 200, error |-> "none", missingProducts |-> <<>>,
                   entries |-> {loc[r].file_name \o DotDxf}]]
    /\ loc' = [loc EXCEPT ![r] = Event([@ EXCEPT !.cleanup = TRUE], "send")]
    /\ pc' = [pc EXCEPT ![r] = "responded"]
    /\ UNCHANGED <<rq, dirs, fs>>
    /\ UNCHANGED notSrv

-----------------------------------------------------------------------------
(* The three handlers: errors and the end of the request *)

\* A variant of the except clause that returns 500 without the rmtree.
SrvExceptNoCleanup(r) ==
    /\ pc[r] = "except"
    /\ resp' = [resp EXCEPT ![r] = JsonError(500, "Internal server error")]
    /\ pc' = [pc EXCEPT ![r] = "responded"]
    /\ UNCHANGED <<rq, loc, dirs, fs>>
    /\ UNCHANGED notSrv

\* The handler's "except Exception": remove the session folder (a failure of
\* shutil.rmtree is swallowed) and return 500.
SrvExcept(r) ==
    /\ pc[r] = "except"
    /\ \E removed \in BOOLEAN :
         IF removed
         THEN /\ dirs' = dirs \ {r}
              /\ fs' = RemoveFiles(fs, FilesOf(fs, r))
              /\ loc' = [loc EXCEPT ![r] = Event(@, "rmtree")]
         ELSE /\ loc' = [loc EXCEPT ![r] = Event(@, "rmtree failed")]
              /\ UNCHANGED <<dirs, fs>>
    /\ resp' = [resp EXCEPT ![r] = JsonError(500, "Internal server error")]
    /\ pc' = [pc EXCEPT ![r] = "responded"]
    /\ UNCHANGED rq
    /\ UNCHANGED notSrv

\* What the cleanup callback removes: the ZIP file (not in /convert-to-dxf)
\* and the session folder.
CleanupPaths(files, r) ==
    IF rq[r].endpoint = "convert"
    THEN FilesOf(files, r)
    ELSE FilesOf(files, r) \cup {ZipPath(r, loc[r].file_name)}

\* The response is sent and closed: the callbacks registered with
\* call_on_close run (none for a JSON error response).
SrvClose(r) ==
    /\ pc[r] = "responded"
    /\ IF loc[r].cleanup
       THEN \E removed \in BOOLEAN :
              IF removed
              THEN /\ dirs' = dirs \ {r}
                   /\ fs' = RemoveFiles(fs, CleanupPaths(fs, r))
                   /\ loc' = [loc EXCEPT ![r] = Event(@, "cleanup")]
              ELSE /\ loc' = [loc EXCEPT ![r] = Event(@, "cleanup failed")]
                   /\ UNCHANGED <<dirs, fs>>
       ELSE UNCHANGED <<dirs, fs, loc>>
    /\ pc' = [pc EXCEPT ![r] = "closed"]
    /\ UNCHANGED <<rq, resp>>
    /\ UNCHANGED notSrv

SrvNext(r) ==
    \/ SrvStartAssembly(r)
    \/ SrvParse(r)
    \/ SrvSaveUploads(r)
    \/ SrvCheckMissing(r)
    \/ SrvAssemble(r)
    \/ SrvConvertAssembly(r)
    \/ SrvZip(r)
    \/ SrvRemoveStep(r)
    \/ SrvSendZip(r)
    \/ SrvStartConvert(r)
    \/ SrvConvValidate(r)
    \/ SrvConvSave(r)
    \/ SrvConvert(r)
    \/ SrvSendDxf(r)
    \/ SrvExcept(r)
    \/ SrvClose(r)

-----------------------------------------------------------------------------
(* STPtoDXFConverter.convert *)

\* Coordinates of the document are whole thousandths of a millimetre, and the
\* sines and cosines of the isometric view whole thousandths.
Milli == 1000
Cos45 == 707
Sin45 == 707
Cos30 == 866
Sin30 == 500

CvCalls == {"A", "B"}

\* The stem of the STEP path given to convert (part.stp).
StpStem == <<"p", "a", "r", "t">>

\* What import_step gives for the STEP file when it loads: the edges of the
\* shape, each as the 3D points _discretize_edge returns (in mm). The last
\* edge yields one point only and is left out of the document.
ShapeEdges ==
    << << <<0, 0, 0>>, <<2, 4, 6>> >>,
       << <<0, 0, 0>>, <<2, 0, 0>>, <<2, 4, 0>> >>,
       << <<2, 4, 6>> >> >>

MinOf(S) == CHOOSE x \in S : \A y \in S : x <= y
MaxOf(S) == CHOOSE x \in S : \A y \in S : x >= y

\* model.bounding_box(), or the fallback box when it raises: <<min, max>> in mm.
BoundingBox(bbox_ok) ==
    IF bbox_ok
    THEN LET pts == UNION {{ShapeEdges[e][k] : k \in 1..Len(ShapeEdges[e])} :
                             e \in 1..Len(ShapeEdges)}
         IN << [a \in 1..3 |-> MinOf({q[a] : q \in pts})],
               [a \in 1..3 |-> MaxOf({q[a] : q \in pts})] >>
    ELSE << <<-100, -100, -100>>, <<100, 100, 100>> >>

\* _project_points for one point (x, y, z in mm, center in thousandths).
ProjectPoint(q, view, center) ==
    LET x_rel == q[1] * Milli - center[1]
        y_rel == q[2] * Milli - center[2]
        z_rel == q[3] * Milli - center[3]
    IN CASE view = "top"   -> <<x_rel, y_rel>>
         [] view = "front" -> <<x_rel, z_rel>>
         [] view = "right" -> <<y_rel, z_rel>>
         [] view = "iso"   ->
              << (x_rel * Cos45 - y_rel * Sin45) \div Milli,
                 (x_rel * Sin45 * Sin30) \div (Milli * Milli)
                 + (y_rel * Cos45 * Sin30) \div (Milli * Milli)
                 + (z_rel * Cos30) \div Milli >>
         [] OTHER          -> <<x_rel, y_rel>>

_project_points(points_3d, view, center) ==
    [k \in 1..Len(points_3d) |-> ProjectPoint(points_3d[k], view, center)]

\* _add_projected_edges: the entities added to the modelspace for one view.
_add_projected_edges(edges, view, layer_name, offset_x, offset_y, center) ==
    LET drawn == SelectSeq(edges, LAMBDA points_3d : Len(points_3d) >= 2)
    IN [e \in 1..Len(drawn) |->
          LET points_2d == _project_points(drawn[e], view, center)
          IN [layer |-> layer_name,
              kind |-> IF Len(points_2d) = 2 THEN "LINE" ELSE "LWPOLYLINE",
              points |-> [k \in 1..Len(points_2d) |->
                            <<points_2d[k][1] + offset_x, points_2d[k][2] + offset_y>>]]]

\* view_positions.get(view, (0, 0)).
ViewPosition(view, spacing) ==
    CASE view = "top"   -> <<0, 0>>
      [] view = "front" -> <<spacing, 0>>
      [] view = "right" -> <<spacing * 2, 0>>
      [] view = "iso"   -> <<spacing * 3, 0>>
      [] OTHER          -> <<0, 0>>

LayerName(view) == <<"VIEW", view>>

\* The loop "for view in views" over the first n views: the entities of the
\* modelspace after. doc.layers.add raises for a layer that exists already;
\* that view is given up (the except of the loop body).
RECURSIVE GenerateViews(_, _, _, _)
GenerateViews(views, n, center, spacing) ==
    IF n = 0 THEN <<>>
    ELSE LET view == views[n]
             before == GenerateViews(views, n - 1, center, spacing)
             position == ViewPosition(view, spacing)
         IN IF \E k \in 1..(n - 1) : views[k] = view
            THEN before
            ELSE before \o _add_projected_edges(ShapeEdges, view, LayerName(view),
                                                position[1], position[2], center)

\* The document convert() builds from its arguments. section_z is a
\* parameter of convert() that its body never reads.
ConvertDoc(views, section_z, bbox_ok) ==
    LET box == BoundingBox(bbox_ok)
        center == [a \in 1..3 |-> ((box[1][a] + box[2][a]) * Milli) \div 2]
        size == [a \in 1..3 |-> (box[2][a] - box[1][a]) * Milli]
        largest == MaxOf({size[a] : a \in 1..3})
        max_dim == IF largest > 0 THEN largest ELSE 100 * Milli
        spacing == (max_dim * 3) \div 2
    IN GenerateViews(views, Len(views), center, spacing)

DefaultViews == <<"top", "front", "right">>

EmptyPath == [folder |-> "", name |-> <<>>]

\* self.output_folder / f"{output_name}.dxf" of the converter of call c.
DxfOutputPath(c, args) ==
    [folder |-> c,
     name |-> (IF args.output_name.given THEN args.output_name.value ELSE StpStem)
              \o DotDxf]

\* doc.saveas writes the file, raises, or returns without a file being there.
SaveOutcomes == {"written", "raised", "no_file"}

\* A variant of convert() that reports success without looking for the file.
convertNoExistsCheck(c, args, files, save) ==
    LET output_path == DxfOutputPath(c, args)
        views == IF args.views.given THEN args.views.value ELSE DefaultViews
        fail(message) ==
            [result |-> [success |-> FALSE, output_path |-> EmptyPath,
                         message |-> message],
             files |-> files, doc |-> <<>>]
    IN IF args.stp = "missing" THEN fail("STEP file not found")
       ELSE IF args.stp = "corrupt" THEN fail("Conversion failed")
       ELSE IF args.stp = "none" THEN fail("Failed to import STEP file")
       ELSE IF save = "raised" THEN fail("Conversion failed")
       ELSE [result |-> [success |-> TRUE, output_path |-> output_path,
                         message |-> "Successfully converted to DXF"],
             files |-> IF save = "written" THEN files \cup {output_path} ELSE files,
             doc |-> ConvertDoc(views, args.section_z, args.bbox)]

\* STPtoDXFConverter.convert: the triple returned, the files after, and the
\* document written.
convert(c, args, files, save) ==
    LET output_path == DxfOutputPath(c, args)
        views == IF args.views.given THEN args.views.value ELSE DefaultViews
        fail(message) ==
            [result |-> [success |-> FALSE, output_path |-> EmptyPath,
                         message |-> message],
             files |-> files, doc |-> <<>>]
    IN IF args.stp = "missing" THEN fail("STEP file not found")
       ELSE IF args.stp = "corrupt" THEN fail("Conversion failed")
       ELSE IF args.stp = "none" THEN fail("Failed to import STEP file")
       ELSE IF save = "raised" THEN fail("Conversion failed")
       ELSE LET after == IF save = "written" THEN files \cup {output_path} ELSE files
            IN IF output_path \in after
               THEN [result |-> [success |-> TRUE, output_path |-> output_path,
                                 message |-> "Successfully converted to DXF"],
                     files |-> after,
                     doc |-> ConvertDoc(views, args.section_z, args.bbox)]
               ELSE fail("DXF file was not created")

ViewNames == {"top", "right", "iso", "section"}

SectionZs ==
    {[given |-> FALSE, value |-> 0], [given |-> TRUE, value |-> 0],
     [given |-> TRUE, value |-> 5]}

CvArgsSet ==
    [stp : {"missing", "corrupt", "none", "ok"},
     output_name : {[given |-> FALSE, value |-> <<>>], [given |-> TRUE, value |-> <<"m">>]},
     views : {[given |-> FALSE, value |-> <<>>]}
             \cup {[given |-> TRUE, value |-> v] : v \in SeqsUpTo(ViewNames, MaxViews)},
     section_z : {[given |-> FALSE, value |-> 0], [given |-> TRUE, value |-> 5]},
     bbox : BOOLEAN]

\* Two calls whose arguments differ at most in section_z; a DXF file of an
\* earlier conversion may lie in the output folder of "A".
CvInit ==
    /\ \E args \in CvArgsSet : \E z \in SectionZs :
          cvArgs = [c \in CvCalls |->
                      IF c = "A" THEN args ELSE [args EXCEPT !.section_z = z]]
    /\ cvFiles \in SUBSET {[folder |-> "A", name |-> StpStem \o DotDxf]}
    /\ cvDoc = [c \in CvCalls |-> <<>>]
    /\ cvResult = [c \in CvCalls |-> NoResult]
    /\ cvPc = [c \in CvCalls |-> "ready"]
    /\ DxfIdle
    /\ TrIdle
    /\ StIdle
    /\ SrvIdle
    /\ LdIdle

CvConvert(c) ==
    /\ cvPc[c] = "ready"
    /\ \E save \in SaveOutcomes :
         LET out == convert(c, cvArgs[c], cvFiles, save)
         IN /\ cvResult' = [cvResult EXCEPT ![c] = out.result]
            /\ cvFiles' = out.files
            /\ cvDoc' = [cvDoc EXCEPT ![c] = out.doc]
    /\ cvPc' = [cvPc EXCEPT ![c] = "done"]
    /\ UNCHANGED cvArgs
    /\ UNCHANGED notCv

CvNext == \E c \in CvCalls : CvConvert(c)

-----------------------------------------------------------------------------
(* Specifications *)

SpecDxf == DxfInit /\ [][DxfNext]_vars

SpecTrsf == TrInit /\ [][TrNext]_vars

SpecStep == StInit /\ [][StNext]_vars

SpecConvert == CvInit /\ [][CvNext]_vars

\* Two requests in flight at once, their handlers' steps interleaved.
SrvNextConcurrent ==
    \E r \in SessionIds :
        \/ SrvStartConcurrent(r)
        \/ SrvParse(r)
        \/ SrvSaveUploads(r)
        \/ SrvCheckMissing(r)
        \/ SrvAssemble(r)
        \/ SrvConvertAssembly(r)
        \/ SrvZip(r)
        \/ SrvRemoveStep(r)
        \/ SrvSendZip(r)
        \/ SrvExcept(r)
        \/ SrvClose(r)

SpecConcurrent == SrvInit /\ [][SrvNextConcurrent]_vars

\* load_assembly_data called on an assembler, and one request of /assemble
\* whose handler calls it.
LdNext ==
    \/ LdLoad
    \/ SrvStartLoad("u1")
    \/ SrvParse("u1")
    \/ SrvSaveUploads("u1")
    \/ SrvCheckMissing("u1")
    \/ SrvAssemble("u1")
    \/ SrvZip("u1")
    \/ SrvRemoveStep("u1")
    \/ SrvSendZip("u1")
    \/ SrvExcept("u1")
    \/ SrvClose("u1")

SpecLoad == LdInit /\ [][LdNext]_vars

\* One request, of session id "u1".
SpecServer == SrvInit /\ [][SrvNext("u1")]_vars

-----------------------------------------------------------------------------
(* Claims on DXFAssembler.assemble, under SpecDxf *)

\* C1 (as claimed): while a later product is processed, the coordinates of
\* the entities already in the output modelspace do not change, also when
\* that product's file holds no entity.
C1_EarlierEntitiesUnchanged ==
    [][dxfPc = "loop" =>
         \A k \in 1..Len(dxfMsp) : dxfMsp'[k].at = dxfMsp[k].at]_vars

\* C2 (as claimed): the entities of the first product of the list are never
\* moved: they stay at their source coordinates in X and in Y.
C2_FirstProductNotTranslated ==
    \A k \in 1..Len(dxfMsp) :
        dxfMsp[k].owner = 1 => dxfMsp[k].at = dxfMsp[k].src

ExpectedOffset(product) ==
    <<(dxfProducts[1].position[3] - product.position[3]) * MmPerMeter,
      product.position[2] * MmPerMeter>>

\* C3 (as claimed, for the entities that implement translate()): in the saved
\* output every entity sits at its source coordinates plus the one offset
\* ((z of first - z of its product) * 1000, y of its product * 1000).
C3_TranslatedOnceByOffset ==
    dxfPc = "done" =>
        \A k \in 1..Len(dxfSaved) :
            LET e == dxfSaved[k]
                off == ExpectedOffset(dxfProducts[e.owner])
            IN e.kind = "LINE" =>
                 e.at = <<e.src[1] + off[1], e.src[2] + off[2]>>

-----------------------------------------------------------------------------
(* Claims on STEPAssembler._create_transformation, under SpecTrsf *)

\* C4 (as claimed): for a product whose scale is not (1,1,1) the returned
\* transformation scales the part first: a point p goes where the
\* transformation of the same product with scale (1,1,1) sends scale * p.
C4_ScaleApplied ==
    (trPc = "done" /\ trProduct.scale # <<1, 1, 1>>) =>
        trImage =
            Transforms(_create_transformation([trProduct EXCEPT !.scale = <<1, 1, 1>>]),
                       [k \in 1..3 |-> trProduct.scale[k] * trPoint[k]])

EulerXYZ(rotation) ==
    MatMul(MatMul(SetRotation(1, rotation[1]).matrix,
                  SetRotation(2, rotation[2]).matrix),
           SetRotation(3, rotation[3]).matrix)

\* C5 (as claimed): rotation is applied before translation: a point p of the
\* part is mapped to R(p) + t with R the X, Y, Z rotations about the origin and
\* t the position in millimetres, so the part's origin lands at t.
C5_RotateThenTranslate ==
    trPc = "done" =>
        trImage = VecAdd(MatVec(EulerXYZ(trProduct.rotation), trPoint),
                         VecScale(MmPerMeter, trProduct.position))

-----------------------------------------------------------------------------
(* Claims on STEPAssembler.assemble, under SpecStep *)

StLoadable == {i \in 1..Len(stProducts) : stFiles[stProducts[i]] = "ok"}

\* C6: on a fresh assembler (first call of assemble), a product whose file is
\* missing or whose import raises is skipped and the later ones are still
\* processed: the call fails for want of shapes only if no product loads, and
\* the exported compound holds exactly one shape per product that loads, in
\* the order of the product list.
C6_SkipAndContinue ==
    (stCalls = 1 /\ stPc \in {"done", "failed_empty"}) =>
        /\ stPc = "failed_empty" => StLoadable = {}
        /\ stPc = "done" =>
             /\ Len(stExported) = Cardinality(StLoadable)
             /\ \A k \in 1..Len(stExported) :
                    /\ stExported[k].index \in StLoadable
                    /\ stExported[k].product_id = stProducts[stExported[k].index]
             /\ \A k, l \in 1..Len(stExported) :
                    k < l => stExported[k].index < stExported[l].index

\* C6 witness: a missing file, then a raising import, then two products that
\* load, exported by the first call.
C6_Witness ==
    /\ stPc = "done"
    /\ stCalls = 1
    /\ Len(stExported) >= 1
    /\ \E i, j, k \in 1..Len(stProducts) :
          /\ i < k /\ j < k
          /\ stFiles[stProducts[i]] = "missing"
          /\ stFiles[stProducts[j]] = "corrupt"
          /\ stFiles[stProducts[k]] = "ok"

-----------------------------------------------------------------------------
(* Claims on the server's handlers, under SpecServer *)

Happened(r, e) == \E k \in 1..Len(loc[r].events) : loc[r].events[k] = e

\* C7 (as claimed): for every outcome of a request, once the response has
\* been sent and closed the session folder created for it no longer exists.
C7_SessionFolderGoneAfterClose ==
    \A r \in SessionIds : pc[r] = "closed" => r \notin dirs

UploadedKeys(r) == {rq[r].files[k].key : k \in 1..Len(rq[r].files)}

\* The productIds, in product order, with no upload under stp_<productId>.
NotUploaded(r) ==
    LET lacking(product) == (StpPrefix \o product.productId) \notin UploadedKeys(r)
        products == SelectSeq(loc[r].products, lacking)
    IN [k \in 1..Len(products) |-> products[k].productId]

\* C8 (as claimed): once the check for missing files has run, the answer is
\* 400 'Missing STEP files' exactly when some product has no upload under
\* stp_<productId>, and missingProducts lists exactly those productIds in
\* product order.
C8_MissingExactlyNotUploaded ==
    \A r \in SessionIds :
        Happened(r, "check") =>
            /\ (resp[r].error = "Missing STEP files") <=> (NotUploaded(r) # <<>>)
            /\ resp[r].error = "Missing STEP files" =>
                   /\ resp[r].status = 400
                   /\ resp[r].missingProducts = NotUploaded(r)

\* The requests C9 is about: no assemblyData, assemblyData that is no JSON,
\* or JSON without a non-empty list under "products".
InvalidAssemblyData(r) ==
    /\ rq[r].endpoint \in {"assemble", "convert_assembly"}
    /\ \/ rq[r].assemblyData.text \in {"absent", "empty", "invalid"}
       \/ rq[r].assemblyData.products.kind # "list"
       \/ rq[r].assemblyData.products.items = <<>>

\* C9 (as claimed): such a request gets a 400 JSON error, no uploaded file is
\* saved for it and the assembler is never invoked.
C9_ValidateBeforeWork ==
    \A r \in SessionIds :
        InvalidAssemblyData(r) =>
            /\ ~Happened(r, "file.save")
            /\ ~Happened(r, "assemble")
            /\ pc[r] \in {"responded", "closed"} =>
                   resp[r].status = 400 /\ resp[r].error # "none"

\* C10 (as claimed): every exception raised inside a handler is answered with
\* 500 'Internal server error', the session folder being removed before that
\* response is returned.
C10_EveryExceptionIs500 ==
    \A r \in SessionIds :
        (pc[r] = "responded" /\ loc[r].raised # {}) =>
            /\ resp[r] = JsonError(500, "Internal server error")
            /\ r \notin dirs

\* The exceptions an inner try of a handler catches: they never reach the
\* handler's "except Exception".
CaughtInside == {"JSONDecodeError", "OSError in os.remove", "ValueError in float"}

\* C10 (amended): every exception that reaches a handler's outer "except
\* Exception" is answered with 500 'Internal server error', and before that
\* response is returned the session folder is removed, unless shutil.rmtree
\* itself failed.
C10_OuterExceptIs500 ==
    \A r \in SessionIds :
        (pc[r] \in {"responded", "closed"} /\ loc[r].raised \ CaughtInside # {}) =>
            /\ resp[r] = JsonError(500, "Internal server error")
            /\ r \notin dirs \/ Happened(r, "rmtree failed")

\* C10 witness: a request whose uploads were saved, whose handler then raised
\* (a malformed transform record), answered 500 with the folder removed.
C10_Witness ==
    /\ pc["u1"] = "responded"
    /\ "ValueError" \in loc["u1"].raised
    /\ Happened("u1", "file.save")
    /\ resp["u1"] = JsonError(500, "Internal server error")
    /\ "u1" \notin dirs
    /\ FilesOf(fs, "u1") = {}

\* The fileName a request asks for ('Assembly' when it gives none).
RequestedName(r) ==
    IF rq[r].assemblyData.fileName.given
    THEN rq[r].assemblyData.fileName.value
    ELSE FileNameDefault

\* Event a is recorded, and before every later event b, in the handler of r.
Precedes(r, a, b) ==
    \E i \in 1..Len(loc[r].events) :
        /\ loc[r].events[i] = a
        /\ \A j \in 1..Len(loc[r].events) : loc[r].events[j] = b => i < j

\* A request of /assemble answered 200.
AssembleSucceeded(r) ==
    rq[r].endpoint = "assemble" /\ resp[r].status = 200

\* The order of the steps of a successful /assemble, the content of its ZIP,
\* and the ZIP file and session folder staying until the response is closed.
AssembleOrderAndCleanup(r) ==
    /\ AssembleSucceeded(r) =>
          /\ resp[r].entries = {RequestedName(r) \o DotStp}
          /\ Precedes(r, "assemble", "zip")
          /\ Precedes(r, "zip", "remove_step")
          /\ Precedes(r, "remove_step", "send")
          /\ Precedes(r, "send", "cleanup")
    /\ (rq[r].endpoint = "assemble" /\ Happened(r, "zip") /\ pc[r] # "closed") =>
          /\ Exists(fs, ZipPath(r, RequestedName(r)))
          /\ r \in dirs
          /\ ~Happened(r, "cleanup")

\* C11 (as claimed): a successful /assemble runs assemble, zip, remove STEP,
\* respond, clean up in that order; its response is a ZIP with the one entry
\* <fileName>.stp; the STEP file of the output folder is gone when the
\* response is returned; the ZIP file and the session folder stay until the
\* response is closed.
C11_AssembleOrder ==
    \A r \in SessionIds :
        /\ AssembleOrderAndCleanup(r)
        /\ AssembleSucceeded(r) =>
              ~Exists(fs, AssemblyStpPath(r, "assemble", RequestedName(r)))

\* C11 (amended): as C11, but the STEP file of the output folder is gone when
\* the response is returned unless os.remove raised, which is only logged.
C11_AssembleOrderBestEffortRemove ==
    \A r \in SessionIds :
        /\ AssembleOrderAndCleanup(r)
        /\ AssembleSucceeded(r) =>
              \/ ~Exists(fs, AssemblyStpPath(r, "assemble", RequestedName(r)))
              \/ "OSError in os.remove" \in loc[r].raised

\* C11 witness: a /assemble request answered 200 with its ZIP, the STEP file
\* removed, the response not yet closed: ZIP file and session folder are there.
C11_Witness ==
    /\ AssembleSucceeded("u1")
    /\ pc["u1"] = "responded"
    /\ resp["u1"].entries = {RequestedName("u1") \o DotStp}
    /\ ~Exists(fs, AssemblyStpPath("u1", "assemble", RequestedName("u1")))
    /\ Exists(fs, ZipPath("u1", RequestedName("u1")))
    /\ "u1" \in dirs

\* A request of /convert-assembly-to-dxf answered 200.
ConvertAssemblySucceeded(r) ==
    rq[r].endpoint = "convert_assembly" /\ resp[r].status = 200

AssemblerFailed(r) ==
    /\ Happened(r, "assemble")
    /\ \/ ~loc[r].success
       \/ /\ rq[r].endpoint = "convert_assembly"
          /\ pc[r] = "responded"
          /\ ~Exists(fs, AssemblyStpPath(r, "convert_assembly", loc[r].file_name))

\* C13: when the assembler reports failure the server answers 500 'Assembly
\* failed' and no ZIP file is created for the request.
C13_AssemblyFailedIs500NoZip ==
    \A r \in SessionIds :
        AssemblerFailed(r) =>
            /\ resp[r] = JsonError(500, "Assembly failed")
            /\ ~Happened(r, "zip")
            /\ ~Exists(fs, ZipPath(r, loc[r].file_name))

\* C13 witness: in /convert-assembly-to-dxf assemble() returned True but left
\* no assembly STEP file, and the answer is 500 'Assembly failed'.
C13_Witness ==
    /\ rq["u1"].endpoint = "convert_assembly"
    /\ Happened("u1", "assemble")
    /\ loc["u1"].success
    /\ ~Exists(fs, AssemblyStpPath("u1", "convert_assembly", loc["u1"].file_name))
    /\ resp["u1"] = JsonError(500, "Assembly failed")

\* C13 witness, /assemble: assemble() returned False.
C13_WitnessAssemble ==
    /\ rq["u1"].endpoint = "assemble"
    /\ Happened("u1", "assemble")
    /\ ~loc["u1"].success
    /\ resp["u1"] = JsonError(500, "Assembly failed")

-----------------------------------------------------------------------------
(* Claims on POST /convert-to-dxf, under SpecServer *)

\* The spellings of a STEP extension, in any mix of cases.
StepExtensions ==
    {<<".", s, t, p>> : s \in {"s", "S"}, t \in {"t", "T"}, p \in {"p", "P"}}
    \cup {<<".", s, t, e, p>> : s \in {"s", "S"}, t \in {"t", "T"},
                                e \in {"e", "E"}, p \in {"p", "P"}}

\* The uploads C14 says are rejected: no 'file' field, an empty filename, or
\* a sanitized filename without a STEP extension.
ConvRejected(r) ==
    \/ \A k \in 1..Len(rq[r].files) : rq[r].files[k].key # FileKey
    \/ \E k \in 1..Len(rq[r].files) :
          /\ rq[r].files[k].key = FileKey
          /\ \/ rq[r].files[k].filename = <<>>
             \/ \A ext \in StepExtensions :
                    ~EndsWith(secure_filename(rq[r].files[k].filename), ext)

\* A rejected upload got 400 with nothing saved and no conversion.
ConvRejectedCleanly(r) ==
    /\ resp[r].status = 400
    /\ ~Happened(r, "file.save")
    /\ ~Happened(r, "convert")
    /\ FilesOf(fs, r) = {}

\* The upload was saved and then the conversion was run.
ConvSavedAndConverted(r) ==
    /\ Happened(r, "file.save")
    /\ Happened(r, "convert")
    /\ Precedes(r, "file.save", "convert")

\* C14 (as claimed): once /convert-to-dxf has answered, a rejected upload got
\* 400 with nothing saved and no conversion; every other upload was saved to
\* the session folder and the conversion was run on it.
C14_ConvertValidation ==
    \A r \in SessionIds :
        (rq[r].endpoint = "convert" /\ pc[r] \in {"responded", "closed"}) =>
            /\ ConvRejected(r) => ConvRejectedCleanly(r)
            /\ ~ConvRejected(r) =>
                  resp[r].status # 400 /\ ConvSavedAndConverted(r)

\* C14 (amended): as C14, but an upload that is not rejected is saved and
\* converted unless file.save raises; then nothing is converted and the
\* answer is the 500 of the outer except.
C14_ConvertValidationUnlessSaveRaises ==
    \A r \in SessionIds :
        (rq[r].endpoint = "convert" /\ pc[r] \in {"responded", "closed"}) =>
            /\ ConvRejected(r) => ConvRejectedCleanly(r)
            /\ ~ConvRejected(r) =>
                  /\ resp[r].status # 400
                  /\ \/ ConvSavedAndConverted(r)
                     \/ /\ "OSError" \in loc[r].raised
                        /\ ~Happened(r, "convert")
                        /\ resp[r] = JsonError(500, "Internal server error")

\* While the conversion is pending the upload sits in the session folder
\* under its sanitized name.
C14_SavedUnderSanitizedName ==
    \A r \in SessionIds :
        pc[r] = "convert" =>
            \E k \in 1..Len(rq[r].files) :
                /\ rq[r].files[k].key = FileKey
                /\ Exists(fs, SessionPath(r, secure_filename(rq[r].files[k].filename)))

\* C14 witness: an upload named m.STP was saved and converted, and answered 200.
C14_Witness ==
    /\ rq["u1"].endpoint = "convert"
    /\ pc["u1"] = "responded"
    /\ ~ConvRejected("u1")
    /\ \E k \in 1..Len(rq["u1"].files) :
          rq["u1"].files[k].filename = <<"m", ".", "S", "T", "P">>
    /\ Happened("u1", "file.save")
    /\ Happened("u1", "convert")
    /\ resp["u1"].status = 200

\* C14 witness, rejection: the filename .stp is sanitized to stp and rejected.
C14_WitnessRejected ==
    /\ rq["u1"].endpoint = "convert"
    /\ pc["u1"] = "responded"
    /\ \E k \in 1..Len(rq["u1"].files) :
          rq["u1"].files[k].key = FileKey /\ rq["u1"].files[k].filename = DotStp
    /\ resp["u1"] = JsonError(400, "Invalid file type")

-----------------------------------------------------------------------------
(* Claims on STPtoDXFConverter.convert, under SpecConvert *)

\* The entities of the section view in the document of call c.
SectionOutput(c) ==
    SelectSeq(cvDoc[c], LAMBDA entity : entity.layer = LayerName("section"))

CvViews(c) ==
    IF cvArgs[c].views.given THEN cvArgs[c].views.value ELSE DefaultViews

\* C15 (as claimed): two conversions that succeed on the same STEP file with
\* the same views, 'section' among them, and are given different Z-heights
\* section_z, give different section output.
C15_SectionZHonoured ==
    (/\ cvPc["A"] = "done" /\ cvPc["B"] = "done"
     /\ cvResult["A"].success /\ cvResult["B"].success
     /\ \E k \in 1..Len(CvViews("A")) : CvViews("A")[k] = "section"
     /\ cvArgs["A"].section_z.given /\ cvArgs["B"].section_z.given
     /\ cvArgs["A"].section_z.value # cvArgs["B"].section_z.value)
        => SectionOutput("A") # SectionOutput("B")

\* <output_name>.dxf, output_name being the stem of the STEP path when none
\* is given.
ExpectedDxfName(c) ==
    IF cvArgs[c].output_name.given
    THEN cvArgs[c].output_name.value \o <<".", "d", "x", "f">>
    ELSE <<"p", "a", "r", "t", ".", "d", "x", "f">>

\* The triple a finished call returned: success only with the file there, in
\* the converter's output folder under <output_name>.dxf; failure with the
\* empty path; failure when the STEP path does not exist.
CvTripleSound(c) ==
    cvPc[c] = "done" =>
        /\ cvResult[c].success =>
              /\ cvResult[c].output_path = [folder |-> c, name |-> ExpectedDxfName(c)]
              /\ cvResult[c].output_path \in cvFiles
        /\ ~cvResult[c].success =>
              cvResult[c].output_path = [folder |-> "", name |-> <<>>]
        /\ cvArgs[c].stp = "missing" => ~cvResult[c].success

\* A call on a STEP path that does not exist leaves the files as they are.
CvMissingCreatesNothing(c) ==
    (cvArgs[c].stp = "missing" /\ cvPc[c] = "ready" /\ cvPc'[c] = "done")
        => cvFiles' = cvFiles

\* C16: convert returns (success, output_path, message) with success True
\* only if the file at output_path exists in the output folder under the name
\* <output_name>.dxf, and success False only with the empty output_path; on
\* a STEP path that does not exist it returns False and creates no file.
C16_ConvertTriple ==
    /\ [](\A c \in CvCalls : CvTripleSound(c))
    /\ [][\A c \in CvCalls : CvMissingCreatesNothing(c)]_vars

\* C16 witness: a call with output_name 'm' returned True and m.dxf is in
\* its output folder, while the other call has not run.
C16_Witness ==
    /\ cvPc["A"] = "done"
    /\ cvPc["B"] = "ready"
    /\ cvArgs["A"].output_name.given
    /\ cvResult["A"].success
    /\ cvResult["A"].output_path = [folder |-> "A", name |-> <<"m", ".", "d", "x", "f">>]
    /\ cvFiles = {[folder |-> "A", name |-> <<"m", ".", "d", "x", "f">>]}

\* C16 witness, missing input: the call returned False with the empty path
\* and the output folder holds what it held before.
C16_WitnessMissing ==
    /\ cvPc["A"] = "done"
    /\ cvArgs["A"].stp = "missing"
    /\ ~cvResult["A"].success
    /\ cvResult["A"].output_path = [folder |-> "", name |-> <<>>]
    /\ cvResult["A"].message = "STEP file not found"

-----------------------------------------------------------------------------
(* Claims on the order of DXFAssembler.assemble, under SpecDxf *)

DxfFileOf(i) == dxfFiles[dxfProducts[i].product_id]

\* The products the loop has gone past.
DxfProcessed ==
    IF dxfPc = "loop" THEN 1..(dxfI - 1)
    ELSE IF dxfPc = "done" \/ (dxfPc = "failed" /\ dxfI > 0) THEN 1..Len(dxfProducts)
    ELSE {}

\* In the output modelspace the entities of an earlier product come before
\* those of a later one, and every processed product whose file loads has
\* all its entities there, in source order; a skipped product has none.
DxfInListOrder ==
    /\ \A k, l \in 1..Len(dxfMsp) : k < l => dxfMsp[k].owner <= dxfMsp[l].owner
    /\ \A i \in DxfProcessed :
          LET mine == SelectSeq(dxfMsp, LAMBDA e : e.owner = i)
          IN IF DxfFileOf(i).state = "ok"
             THEN [k \in 1..Len(mine) |-> mine[k].kind] = DxfFileOf(i).entities
             ELSE mine = <<>>

\* The iteration for a product whose file is missing or does not load leaves
\* the output modelspace as it is and goes on to the next product.
DxfSkipLeavesOutput ==
    (dxfPc = "loop" /\ dxfI <= Len(dxfProducts) /\ dxfI' = dxfI + 1
     /\ DxfFileOf(dxfI).state # "ok")
        => dxfMsp' = dxfMsp /\ dxfPc' = "loop"

\* C17: products are processed in the order loaded: the entities of product i
\* come before those of product j whenever i is before j in the list, and a
\* product whose file is missing or fails to load is skipped without
\* changing the output or stopping the loop.
C17_ProcessedInOrder ==
    /\ []DxfInListOrder
    /\ [][DxfSkipLeavesOutput]_vars

\* C17 witness: the first product's file is missing or unreadable, the second
\* loads, and the output saved holds the second product's entities.
C17_Witness ==
    /\ dxfPc = "done"
    /\ Len(dxfProducts) = 2
    /\ DxfFileOf(1).state # "ok"
    /\ DxfFileOf(2).state = "ok"
    /\ Len(dxfSaved) = 2
    /\ \A k \in 1..Len(dxfSaved) : dxfSaved[k].owner = 2

\* C17 witness, order: two products that load, the entities of the first
\* before those of the second.
C17_WitnessOrder ==
    /\ dxfPc = "done"
    /\ Len(dxfSaved) = 4
    /\ dxfSaved[1].owner = 1 /\ dxfSaved[2].owner = 1
    /\ dxfSaved[3].owner = 2 /\ dxfSaved[4].owner = 2

-----------------------------------------------------------------------------
(* Claims on concurrent requests, under SpecConcurrent *)

InFlight(r) == pc[r] \notin {"idle", "closed"}

\* The paths the handler of request r reads, writes or removes: the uploads
\* it saves, the STEP file of each product, the assembly, its DXF, the ZIP.
PathsUsed(r) ==
    LET name == RequestedName(r)
        items == rq[r].assemblyData.products.items
    IN {SessionPath(r, secure_filename(SubSeq(rq[r].files[k].key, 5,
                                              Len(rq[r].files[k].key)) \o DotStp)) :
            k \in {j \in 1..Len(rq[r].files) : StartsWith(rq[r].files[j].key, StpPrefix)}}
       \cup {SessionPath(r, items[k].productId \o DotStp) : k \in 1..Len(items)}
       \cup {AssemblyStpPath(r, rq[r].endpoint, name), ZipPath(r, name)}
       \cup (IF rq[r].endpoint = "convert_assembly"
             THEN {SessionPath(r, name \o DotDxf)} ELSE {})

\* C18 (as claimed): two requests in flight, of distinct session ids, use
\* disjoint paths, whatever their fileName and productIds: no file that
\* exists is read, written or removed by both.
C18_NoSharedFile ==
    \A r1, r2 \in SessionIds :
        (r1 # r2 /\ InFlight(r1) /\ InFlight(r2)) =>
            \A path \in DOMAIN fs :
                ~(path \in PathsUsed(r1) /\ path \in PathsUsed(r2))

-----------------------------------------------------------------------------
(* Claims on load_assembly_data, under SpecLoad *)

\* A vector the claim says is refused: a list with fewer than 3 elements, or
\* with an element that is no number (a string that spells none, or null)
\* among those read.
RefusedVec(raw) ==
    /\ raw.kind = "list"
    /\ \/ Len(raw.items) < 3
       \/ \E k \in 1..Len(raw.items) :
             k <= 3 /\ (raw.items[k].type = "null" \/ ~raw.items[k].numeric)

RefusedRecord(data) ==
    RefusedVec(data.position) \/ RefusedVec(data.rotation) \/ RefusedVec(data.scale)

Floats(a, b, c) ==
    <<[type |-> "float", value |-> a], [type |-> "float", value |-> b],
      [type |-> "float", value |-> c]>>

\* After a call that returned, the records without position, rotation or
\* scale have the defaults, as floats.
LdDefaults ==
    (ldPc # "fresh" /\ ldRaised = "none") =>
        /\ Len(ldProducts) = Len(ldData)
        /\ \A k \in 1..Len(ldData) :
              /\ ldData[k].position.kind = "absent" =>
                     ldProducts[k].position = Floats(0, 0, 0)
              /\ ldData[k].rotation.kind = "absent" =>
                     ldProducts[k].rotation = Floats(0, 0, 0)
              /\ ldData[k].scale.kind = "absent" =>
                     ldProducts[k].scale = Floats(1, 1, 1)

\* A call given a list with a refused record raises and leaves the product
\* list as it was.
LdAllOrNothing ==
    (ldPc' # ldPc /\ \E k \in 1..Len(ldData') : RefusedRecord(ldData'[k]))
        => ldRaised' # "none" /\ ldProducts' = ldProducts

\* The handler of r called load_assembly_data with a refused record, and has
\* answered.
SrvLoadRefused(r) ==
    /\ pc[r] \in {"responded", "closed"}
    /\ Happened(r, "check")
    /\ loc[r].missing_files = <<>>
    /\ \E k \in 1..Len(loc[r].products) : RefusedRecord(loc[r].products[k].transform)

C19_WitnessServer ==
    /\ SrvLoadRefused("u1")
    /\ "ValueError" \in loc["u1"].raised
    /\ resp["u1"] = JsonError(500, "Internal server error")
    /\ "u1" \notin dirs

====
